---- MODULE Spec2Model ----
(***************************************************************************)
(* django_sorcery/db/meta.py: the descriptor registry (model_info_meta),   *)
(* the model descriptor (model_info), the composite descriptor             *)
(* (composite_info) and the identity-key pair resolution of the            *)
(* relationship descriptor (relation_info).                                *)
(*                                                                         *)
(* Four specifications share the module:                                   *)
(*   Spec      one caller of model_info(model), a mapper that grows,       *)
(*             mapper_configured notifications, reads of field_names       *)
(*   SpecReg   model_info_meta.__call__ run by several threads             *)
(*   SpecRel   relation_info.local_remote_pairs_for_identity_key over      *)
(*             bounded relationships / foreign-key constraints             *)
(*   SpecComp  composite_info construction and its field_names property    *)
(*                                                                         *)
(* Attribute names are tuples of characters, so that startswith("_") and   *)
(* sorted() are computed on the name itself.                               *)
(***************************************************************************)
EXTENDS Integers, Sequences, FiniteSets, TLC

VARIABLES
    \* ---- the mapper of the one mapped class (sqlalchemy side) ----
    mapper_primary_key,     \* mapper.primary_key: keys of the pk columns' properties
    mapper_columns,         \* mapper.columns, by property key, in order
    mapper_composites,      \* mapper.composites, by key
    mapper_relationships,   \* mapper.relationships, by key
    \* ---- model_info_meta / model_info ----
    registry,               \* model_info_meta._registry
    infos,                  \* the model_info instances ever constructed, by constructing thread
    pc, local, ret,         \* per thread: position in __call__, its locals, last return value
    hist,                   \* per model_info: observations of its _configure calls
    \* ---- relation_info ----
    rel,                    \* the relationship: target pk, raw pairs, parent table constraints
    rel_pc, rel_matching, rel_result,
    \* ---- composite_info ----
    comp_in,                \* composite class and property the descriptor is built from
    comp_pc, comp_properties, comp_field_names, comp_ret, comp_error

main_vars == <<mapper_primary_key, mapper_columns, mapper_composites, mapper_relationships,
               registry, infos, pc, local, ret, hist>>
rel_vars  == <<rel, rel_pc, rel_matching, rel_result>>
comp_vars == <<comp_in, comp_pc, comp_properties, comp_field_names, comp_ret, comp_error>>
vars == <<main_vars, rel_vars, comp_vars>>

-----------------------------------------------------------------------------
\* Names

\* str.startswith("_")
startswith_underscore(attr) == Len(attr) > 0 /\ attr[1] = "_"

\* [attr for attr in names if not attr.startswith("_")]
RECURSIVE visible(_)
visible(names) ==
    IF names = <<>> THEN <<>>
    ELSE IF startswith_underscore(Head(names)) THEN visible(Tail(names))
         ELSE <<Head(names)>> \o visible(Tail(names))

\* keys of an (ordered) dict, as a set and in order
Keys(map) == {map[j].key : j \in DOMAIN map}
KeySeq(map) == [j \in DOMAIN map |-> map[j].key]
Range(s) == {s[j] : j \in DOMAIN s}

-----------------------------------------------------------------------------
\* Bounds of the Spec and SpecReg specifications

NumThreads == 2
Threads == 1..NumThreads
MaxExtraColumns == 2
MaxComposites == 1
MaxRelationships == 1

ModelClass == <<"M">>
PkChoices == {<< <<"i","d">> >>, << <<"i","d">>, <<"v">> >>}
ExtraColumnPool == << <<"_","s">>, <<"v">>, <<"n">> >>
CompositePool == << <<"l","o","c">>, <<"_","c">> >>
RelationshipPool == << <<"k","i","d","s">>, <<"_","b","k">> >>
ColumnNames == {ExtraColumnPool[j] : j \in 1..MaxExtraColumns}
CompositeNames == {CompositePool[j] : j \in 1..MaxComposites}
RelationshipNames == {RelationshipPool[j] : j \in 1..MaxRelationships}

\* what a caller may pass to model_info(...): the class or its mapper
CallArgs == {[kind |-> "class", name |-> ModelClass], [kind |-> "mapper", class_ |-> ModelClass]}

-----------------------------------------------------------------------------
\* model_info._configure
\* A dict is a sequence of entries [key, obj] in insertion order; obj tells the
\* child descriptor objects bound to one key apart: the n-th object created for
\* that key is n.

\* one "if key not in <dict>: <dict>[key] = <new object>" loop; `taken` are the
\* keys of the other dict the loop also tests
RECURSIVE insert_missing(_, _, _)
insert_missing(map, keys, taken) ==
    IF keys = <<>> THEN map
    ELSE IF Head(keys) \in Keys(map) \cup taken
         THEN insert_missing(map, Tail(keys), taken)
         ELSE insert_missing(Append(map, [key |-> Head(keys), obj |-> 1]), Tail(keys), taken)

\* the same loop without its "not in" test: dict assignment keeps the position
\* of an existing key and rebinds it to a new object
RECURSIVE insert_always(_, _)
insert_always(map, keys) ==
    IF keys = <<>> THEN map
    ELSE LET k == Head(keys)
             m2 == IF k \in Keys(map)
                   THEN [j \in DOMAIN map |->
                            IF map[j].key = k THEN [key |-> k, obj |-> map[j].obj + 1] ELSE map[j]]
                   ELSE Append(map, [key |-> k, obj |-> 1])
         IN insert_always(m2, Tail(keys))

\* composite_info(getattr(model_class, key)) goes through model_info_meta.__call__
\* (lines 19-27, one thread): the registry is keyed by the class attribute and
\* holds the composite_info created for it
attr_key(k) == [kind |-> "attr", name |-> k]
class_key(model) == [kind |-> "class", name |-> model]
put(f, k, v) == [x \in DOMAIN f \cup {k} |-> IF x = k THEN v ELSE f[x]]

RECURSIVE insert_composites(_, _, _)
insert_composites(map, keys, reg) ==
    IF keys = <<>> THEN [map |-> map, registry |-> reg]
    ELSE LET k == Head(keys)
             reg2 == IF attr_key(k) \in DOMAIN reg THEN reg ELSE put(reg, attr_key(k), 1)
         IN IF k \in Keys(map) THEN insert_composites(map, Tail(keys), reg)
            ELSE insert_composites(Append(map, [key |-> k, obj |-> reg2[attr_key(k)]]),
                                   Tail(keys), reg2)

\* st = [info, registry]: the descriptor and the registry
\* lines 231-234
configure_primary_keys(st) ==
    [st EXCEPT !.info.primary_keys = insert_missing(@, mapper_primary_key, {})]

\* lines 236-239 without the "attr.key not in self.primary_keys" test
configure_columns_no_pk_test(st) ==
    [st EXCEPT !.info.properties = insert_missing(@, mapper_columns, {})]

\* lines 236-239
configure_columns(st) ==
    [st EXCEPT !.info.properties = insert_missing(@, mapper_columns, Keys(st.info.primary_keys))]

\* lines 241-243
configure_composites(st) ==
    LET r == insert_composites(st.info.composites, mapper_composites, st.registry)
    IN [st EXCEPT !.info.composites = r.map, !.registry = r.registry]

\* lines 245-247 without the "not in self.relationships" test
configure_relationships_overwrite(st) ==
    [st EXCEPT !.info.relationships = insert_always(@, mapper_relationships)]

\* lines 245-247
configure_relationships(st) ==
    [st EXCEPT !.info.relationships = insert_missing(@, mapper_relationships, {})]

\* lines 227-247
configure(st) ==
    configure_relationships(configure_composites(configure_columns(configure_primary_keys(st))))

\* lines 216-222: the fields of a fresh model_info
new_model_info ==
    [primary_keys |-> <<>>, properties |-> <<>>, composites |-> <<>>, relationships |-> <<>>,
     field_names |-> [none |-> TRUE, val |-> <<>>]]

\* lines 215-225: model_info.__init__, _configure included
model_info_init(reg) == configure([info |-> new_model_info, registry |-> reg])

\* chain(primary_keys.keys(), properties.keys(), composites.keys(), relationships.keys())
chain_keys(info) ==
    KeySeq(info.primary_keys) \o KeySeq(info.properties)
        \o KeySeq(info.composites) \o KeySeq(info.relationships)

\* "not self._field_names": None and [] are both falsy
falsy(fn) == fn.none \/ fn.val = <<>>

\* lines 249-260: the object after a read of field_names
field_names_get(info) ==
    IF falsy(info.field_names)
    THEN [info EXCEPT !.field_names = [none |-> FALSE, val |-> visible(chain_keys(info))]]
    ELSE info

\* the value a read of field_names returns
field_names(info) == field_names_get(info).field_names.val

\* what the mapper looks like now
mapper_meta == <<mapper_primary_key, mapper_columns, mapper_composites, mapper_relationships>>
maps_of(info) == <<info.primary_keys, info.properties, info.composites, info.relationships>>

\* lines 20-21: a Mapper is resolved to its class
resolve(arg) == IF arg.kind = "mapper" THEN arg.class_ ELSE arg.name

-----------------------------------------------------------------------------
\* Spec and SpecReg: actions

rel_idle == [target_pk |-> <<>>, pairs |-> <<>>, constraints |-> <<>>]
comp_idle == [col_attrs |-> {}, init_args |-> <<>>, ncols |-> 0]

MainInit ==
    /\ mapper_primary_key \in PkChoices
    /\ mapper_columns = mapper_primary_key
    /\ mapper_composites = <<>>
    /\ mapper_relationships = <<>>
    /\ registry = <<>>
    /\ infos = <<>>
    /\ pc = [t \in Threads |-> "idle"]
    /\ local = [t \in Threads |-> [model |-> ModelClass]]
    /\ ret = [t \in Threads |-> 0]
    /\ hist = <<>>

RelIdle ==
    /\ rel = rel_idle /\ rel_pc = "off" /\ rel_matching = <<>> /\ rel_result = <<>>

CompIdle ==
    /\ comp_in = comp_idle /\ comp_pc = "off" /\ comp_properties = <<>>
    /\ comp_field_names = [kind |-> "set", val |-> {}]
    /\ comp_ret = [reads |-> 0, val |-> <<>>] /\ comp_error = FALSE

Init == MainInit /\ RelIdle /\ CompIdle

\* sqlalchemy side: the mapper gains a column property (never a pk column:
\* Mapper.primary_key is fixed when the mapper is constructed)
AddColumn(k) ==
    /\ UNCHANGED <<rel_vars, comp_vars>>
    /\ k \notin Range(mapper_columns)
    /\ mapper_columns' = Append(mapper_columns, k)
    /\ UNCHANGED <<mapper_primary_key, mapper_composites, mapper_relationships,
                   registry, infos, pc, local, ret, hist>>

AddComposite(k) ==
    /\ UNCHANGED <<rel_vars, comp_vars>>
    /\ k \notin Range(mapper_composites)
    /\ mapper_composites' = Append(mapper_composites, k)
    /\ UNCHANGED <<mapper_primary_key, mapper_columns, mapper_relationships,
                   registry, infos, pc, local, ret, hist>>

AddRelationship(k) ==
    /\ UNCHANGED <<rel_vars, comp_vars>>
    /\ k \notin Range(mapper_relationships)
    /\ mapper_relationships' = Append(mapper_relationships, k)
    /\ UNCHANGED <<mapper_primary_key, mapper_columns, mapper_composites,
                   registry, infos, pc, local, ret, hist>>

new_hist == [seen |-> mapper_meta, idem |-> FALSE, grew |-> FALSE]

\* model_info_meta.__call__ (lines 19-27) run by one thread without interruption;
\* the instance a thread constructs is named after the thread
Call(t, arg) ==
    /\ UNCHANGED <<rel_vars, comp_vars>>
    /\ pc[t] = "idle"
    /\ LET model == resolve(arg) IN
       IF class_key(model) \notin DOMAIN registry
       THEN LET st == model_info_init(registry) IN
            /\ infos' = put(infos, t, st.info)
            /\ hist' = put(hist, t, new_hist)
            /\ registry' = put(st.registry, class_key(model), t)
            /\ ret' = [ret EXCEPT ![t] = t]
       ELSE /\ ret' = [ret EXCEPT ![t] = registry[class_key(model)]]
            /\ UNCHANGED <<infos, hist, registry>>
    /\ UNCHANGED <<mapper_primary_key, mapper_columns, mapper_composites, mapper_relationships,
                   pc, local>>

\* the "mapper_configured" listener of instance i (line 224) is invoked
MapperConfigured(i) ==
    /\ UNCHANGED <<rel_vars, comp_vars>>
    /\ i \in DOMAIN infos
    /\ LET st == configure([info |-> infos[i], registry |-> registry]) IN
       /\ infos' = [infos EXCEPT ![i] = st.info]
       /\ registry' = st.registry
       /\ hist' = [hist EXCEPT ![i] = [seen |-> mapper_meta,
                                       idem |-> (hist[i].seen = mapper_meta),
                                       grew |-> hist[i].grew \/ maps_of(st.info) # maps_of(infos[i])]]
    /\ UNCHANGED <<mapper_primary_key, mapper_columns, mapper_composites, mapper_relationships,
                   pc, local, ret>>

\* a read of model_info.field_names
ReadFieldNames(i) ==
    /\ UNCHANGED <<rel_vars, comp_vars>>
    /\ i \in DOMAIN infos
    /\ infos' = [infos EXCEPT ![i] = field_names_get(infos[i])]
    /\ UNCHANGED <<mapper_primary_key, mapper_columns, mapper_composites, mapper_relationships,
                   registry, pc, local, ret, hist>>

Next ==
    \/ \E k \in ColumnNames : AddColumn(k)
    \/ \E k \in CompositeNames : AddComposite(k)
    \/ \E k \in RelationshipNames : AddRelationship(k)
    \/ \E arg \in CallArgs : Call(1, arg)
    \/ \E i \in Threads : MapperConfigured(i)
    \/ \E i \in Threads : ReadFieldNames(i)

Spec == Init /\ [][Next]_vars

\* ---- the same __call__ with its thread switch points (SpecReg) ----

\* lines 19-23: resolve a mapper to its class, test the registry
CallCheck(t, arg) ==
    /\ UNCHANGED <<rel_vars, comp_vars>>
    /\ pc[t] = "idle"
    /\ local' = [local EXCEPT ![t] = [model |-> resolve(arg)]]
    /\ pc' = [pc EXCEPT ![t] = IF class_key(resolve(arg)) \notin DOMAIN registry
                               THEN "construct" ELSE "return"]
    /\ UNCHANGED <<mapper_primary_key, mapper_columns, mapper_composites, mapper_relationships,
                   registry, infos, ret, hist>>

\* line 24: instance = model_info.__init__(model)
CallConstruct(t) ==
    /\ UNCHANGED <<rel_vars, comp_vars>>
    /\ pc[t] = "construct"
    /\ LET st == model_info_init(registry) IN
       /\ infos' = put(infos, t, st.info)
       /\ hist' = put(hist, t, new_hist)
       /\ registry' = st.registry
    /\ pc' = [pc EXCEPT ![t] = "insert"]
    /\ UNCHANGED <<mapper_primary_key, mapper_columns, mapper_composites, mapper_relationships,
                   local, ret>>

\* line 25: cls._registry[model] = instance
CallInsert(t) ==
    /\ UNCHANGED <<rel_vars, comp_vars>>
    /\ pc[t] = "insert"
    /\ registry' = put(registry, class_key(local[t].model), t)
    /\ pc' = [pc EXCEPT ![t] = "return"]
    /\ UNCHANGED <<mapper_primary_key, mapper_columns, mapper_composites, mapper_relationships,
                   infos, local, ret, hist>>

\* line 27: return cls._registry[model]
CallReturn(t) ==
    /\ UNCHANGED <<rel_vars, comp_vars>>
    /\ pc[t] = "return"
    /\ ret' = [ret EXCEPT ![t] = registry[class_key(local[t].model)]]
    /\ pc' = [pc EXCEPT ![t] = "idle"]
    /\ UNCHANGED <<mapper_primary_key, mapper_columns, mapper_composites, mapper_relationships,
                   registry, infos, local, hist>>

RegNext ==
    \/ \E k \in CompositeNames : AddComposite(k)
    \/ \E t \in Threads, arg \in CallArgs : CallCheck(t, arg)
    \/ \E t \in Threads : CallConstruct(t)
    \/ \E t \in Threads : CallInsert(t)
    \/ \E t \in Threads : CallReturn(t)

SpecReg == Init /\ [][RegNext]_vars

-----------------------------------------------------------------------------
\* relation_info.local_remote_pairs_for_identity_key (SpecRel)
\* A column pair is <<local, remote>>; a foreign-key constraint is the sequence
\* of its elements [parent, column] (referencing column, referenced column); the
\* constraints of the parent table are a sequence of constraint objects, two of
\* which may declare the same columns.

MaxPairs == 2
MaxConstraints == 2
LocalCols == {"a", "b"}
RemoteCols == {"p", "q"}

\* sequences without repetition over S, of length 1..n
RECURSIVE distinct_seqs(_, _)
distinct_seqs(S, n) ==
    IF n = 0 THEN {}
    ELSE LET shorter == distinct_seqs(S, n - 1) IN
         {<<x>> : x \in S} \cup shorter
            \cup UNION {{Append(q, x) : x \in S \ Range(q)} : q \in shorter}

\* sequences over S of length 0..n
seqs_upto(S, n) == UNION {[1..m -> S] : m \in 0..n}

\* the constraints a table may declare: each local column references at most
\* one remote column
FkConstraints ==
    {c \in distinct_seqs([parent : LocalCols, column : RemoteCols], Cardinality(LocalCols)) :
        \A j, k \in DOMAIN c : j # k => c[j].parent # c[k].parent}

Relationships ==
    [target_pk : distinct_seqs(RemoteCols, Cardinality(RemoteCols)),
     pairs : distinct_seqs(LocalCols \X RemoteCols, MaxPairs),
     constraints : seqs_upto(FkConstraints, MaxConstraints)]

\* line 167: {v: k for k, v in self.local_remote_pairs}; a later pair replaces
\* an earlier one with the same remote column
RECURSIVE remote_to_local(_)
remote_to_local(prs) ==
    IF prs = <<>> THEN <<>>
    ELSE LET last == prs[Len(prs)] IN
         put(remote_to_local(SubSeq(prs, 1, Len(prs) - 1)), last[2], last[1])

\* line 193: {i.column: i.parent for i in constraint.elements}
RECURSIVE column_to_parent(_)
column_to_parent(c) ==
    IF c = <<>> THEN <<>>
    ELSE LET last == c[Len(c)] IN
         put(column_to_parent(SubSeq(c, 1, Len(c) - 1)), last.column, last.parent)

\* line 171 raises KeyError unless every target pk column is a key of the dict
key_error(r) == \E j \in DOMAIN r.target_pk : r.target_pk[j] \notin DOMAIN remote_to_local(r.pairs)

\* [(pairs[i], i) for i in target_pk]
pairs_in_pk_order(d, target_pk) == [j \in DOMAIN target_pk |-> <<d[target_pk[j]], target_pk[j]>>]

\* line 171 replaced by "return self.local_remote_pairs"
direct_pairs_unordered(r) == r.pairs

\* line 171
direct_pairs(r) == pairs_in_pk_order(remote_to_local(r.pairs), r.target_pk)

\* line 183: set(pairs.values())
parent_columns(r) == {remote_to_local(r.pairs)[x] : x \in DOMAIN remote_to_local(r.pairs)}
\* line 184
target_columns(r) == Range(r.target_pk)

\* lines 188-189 with "==" between the column sets themselves
constraint_matches_exactly(r, c) ==
    /\ {c[j].parent : j \in DOMAIN c} = parent_columns(r)
    /\ {c[j].column : j \in DOMAIN c} = target_columns(r)

\* lines 188-189
constraint_matches(r, c) ==
    /\ (parent_columns(r) \cap {c[j].parent : j \in DOMAIN c}) = parent_columns(r)
    /\ (target_columns(r) \cap {c[j].column : j \in DOMAIN c}) = target_columns(r)

\* lines 185-190
matching_constraints(r) ==
    LET selected(c) == constraint_matches(r, c) IN SelectSeq(r.constraints, selected)

\* lines 193-194 replaced by "return [(i.parent, i.column) for i in elements]"
constraint_pairs_in_element_order(r, c) == [j \in DOMAIN c |-> <<c[j].parent, c[j].column>>]

\* lines 193-194
constraint_pairs(r, c) == pairs_in_pk_order(column_to_parent(c), r.target_pk)

\* lines 192-198
fallback_pairs(r) ==
    IF Len(matching_constraints(r)) = 1
    THEN constraint_pairs(r, matching_constraints(r)[1])
    ELSE r.pairs

RelInit ==
    /\ rel \in Relationships
    /\ rel_pc = "ready"
    /\ rel_matching = <<>>
    /\ rel_result = <<>>

\* lines 166-171: the try block returns
ResolveDirect ==
    /\ rel_pc = "ready"
    /\ ~key_error(rel)
    /\ rel_result' = direct_pairs(rel)
    /\ rel_pc' = "direct"
    /\ UNCHANGED <<rel, rel_matching, main_vars, comp_vars>>

\* lines 173-198: the KeyError handler returns
ResolveFallback ==
    /\ rel_pc = "ready"
    /\ key_error(rel)
    /\ rel_matching' = matching_constraints(rel)
    /\ rel_result' = fallback_pairs(rel)
    /\ rel_pc' = "fallback"
    /\ UNCHANGED <<rel, main_vars, comp_vars>>

RelNext == ResolveDirect \/ ResolveFallback

\* the registry and the model descriptor, not in use
MainIdle == MainInit /\ Len(mapper_primary_key) = 1

RelSpecInit == MainIdle /\ RelInit /\ CompIdle

SpecRel == RelSpecInit /\ [][RelNext]_vars

-----------------------------------------------------------------------------
\* composite_info (SpecComp)

MaxCols == 2
MaxReads == 2
AttrNames == {<<"x">>, <<"y">>, <<"_", "z">>}

\* code points of the characters in use
ord(c) == CASE c = "_" -> 95 [] c = "x" -> 120 [] c = "y" -> 121 [] c = "z" -> 122

\* str < str
RECURSIVE str_less(_, _)
str_less(u, v) ==
    IF v = <<>> THEN FALSE
    ELSE IF u = <<>> THEN TRUE
    ELSE IF ord(Head(u)) # ord(Head(v)) THEN ord(Head(u)) < ord(Head(v))
    ELSE str_less(Tail(u), Tail(v))

\* list(sorted(S))
RECURSIVE sorted(_)
sorted(S) ==
    IF S = {} THEN <<>>
    ELSE LET least == CHOOSE x \in S : \A y \in S \ {x} : str_less(x, y)
         IN <<least>> \o sorted(S \ {least})

\* the orders in which iterating a set may yield its elements
iteration_orders(S) ==
    IF S = {} THEN {<<>>}
    ELSE {q \in distinct_seqs(S, Cardinality(S)) : Len(q) = Cardinality(S)}

\* what a composite is built from: the names of the Column attributes of the
\* composite class, the positional parameters of its __init__ (get_args), and
\* the number of props/columns of the composite property
Composites ==
    [col_attrs : SUBSET AttrNames,
     init_args : {<<>>} \cup distinct_seqs(AttrNames, MaxCols),
     ncols : 0..MaxCols]

\* lines 41-43
composite_attrs(c) == IF sorted(c.col_attrs) # <<>> THEN sorted(c.col_attrs) ELSE c.init_args

\* lines 45-47: zip stops at the shortest of attrs, props and columns
composite_properties(c) ==
    LET attrs == composite_attrs(c)
        n == IF Len(attrs) < c.ncols THEN Len(attrs) ELSE c.ncols
    IN [j \in 1..n |-> [key |-> attrs[j], obj |-> 1]]

\* "not self._field_names" for the empty set and the empty list
comp_falsy(fn) == IF fn.kind = "set" THEN fn.val = {} ELSE fn.val = <<>>

CompInit ==
    /\ comp_in \in Composites
    /\ comp_pc = "new"
    /\ comp_properties = <<>>
    /\ comp_field_names = [kind |-> "set", val |-> {}]
    /\ comp_ret = [reads |-> 0, val |-> <<>>]
    /\ comp_error = FALSE

\* lines 37-47: composite_info.__init__
CompositeInit ==
    /\ comp_pc = "new"
    /\ comp_field_names' = [kind |-> "set", val |-> {}]
    /\ comp_properties' = composite_properties(comp_in)
    /\ comp_pc' = "built"
    /\ UNCHANGED <<comp_in, comp_ret, comp_error, main_vars, rel_vars>>

\* lines 49-56, _field_names already truthy: the cached list is returned
ReadCached ==
    /\ comp_pc = "built" /\ comp_ret.reads < MaxReads
    /\ ~comp_falsy(comp_field_names)
    /\ comp_ret' = [reads |-> comp_ret.reads + 1, val |-> comp_field_names.val]
    /\ comp_error' = FALSE
    /\ UNCHANGED <<comp_in, comp_pc, comp_properties, comp_field_names, main_vars, rel_vars>>

\* lines 49-56, _field_names an empty set: it is filled, then listed in the
\* iteration order of the set
ReadCompute ==
    /\ comp_pc = "built" /\ comp_ret.reads < MaxReads
    /\ comp_falsy(comp_field_names) /\ comp_field_names.kind = "set"
    /\ \E order \in iteration_orders(comp_field_names.val \cup Keys(comp_properties)) :
          /\ comp_field_names' = [kind |-> "list", val |-> visible(order)]
          /\ comp_ret' = [reads |-> comp_ret.reads + 1, val |-> visible(order)]
    /\ comp_error' = FALSE
    /\ UNCHANGED <<comp_in, comp_pc, comp_properties, main_vars, rel_vars>>

\* lines 49-52, _field_names an empty list: list has no update(), the read
\* raises AttributeError
ReadRaises ==
    /\ comp_pc = "built" /\ comp_ret.reads < MaxReads
    /\ comp_falsy(comp_field_names) /\ comp_field_names.kind = "list"
    /\ comp_error' = TRUE
    /\ comp_ret' = [comp_ret EXCEPT !.reads = @ + 1]
    /\ UNCHANGED <<comp_in, comp_pc, comp_properties, comp_field_names, main_vars, rel_vars>>

CompNext == CompositeInit \/ ReadCached \/ ReadCompute \/ ReadRaises

CompSpecInit == MainIdle /\ RelIdle /\ CompInit

SpecComp == CompSpecInit /\ [][CompNext]_vars

-----------------------------------------------------------------------------
\* Claims on the identity-key pairs of a relationship (SpecRel)

\* the remote columns of the raw pairs, and the raw pairs as a set
raw_remotes == {rel.pairs[j][2] : j \in DOMAIN rel.pairs}
raw_pairs == Range(rel.pairs)
pk_set == Range(rel.target_pk)

\* C5 (SpecRel): when every primary-key column of the target is the remote
\* column of a raw pair, the result is one pair per target pk column, in the
\* order of the target pk, each a raw pair of the relationship whose remote
\* column is that pk column (the raw pair for it, where there is only one).
C5_DirectPath ==
    (rel_pc # "ready" /\ pk_set \subseteq raw_remotes) =>
        /\ rel_pc = "direct"
        /\ Len(rel_result) = Len(rel.target_pk)
        /\ \A j \in DOMAIN rel.target_pk :
              /\ rel_result[j][2] = rel.target_pk[j]
              /\ rel_result[j] \in raw_pairs

\* C5 witness: a two-column target pk resolved directly from raw pairs listed
\* in the opposite order
C5_Witness ==
    /\ rel_pc = "direct" /\ Len(rel.target_pk) = 2 /\ Len(rel.pairs) = 2
    /\ rel.pairs[1][2] = rel.target_pk[2] /\ rel.pairs[2][2] = rel.target_pk[1]
    /\ rel_result # rel.pairs

\* a constraint covers the relationship: it references every target pk column
\* and its referencing columns include every local column of the remote->local
\* map of the raw pairs
covers(c) ==
    /\ \A l \in parent_columns(rel) : \E j \in DOMAIN c : c[j].parent = l
    /\ \A x \in pk_set : \E j \in DOMAIN c : c[j].column = x
covering == SelectSeq(rel.constraints, covers)

\* C6 (SpecRel): target pk of 2 columns, exactly 1 of them the remote column of
\* a raw pair, and the parent table declares one matching foreign-key
\* constraint, of 2 columns: the result is 2 pairs in the order of the target
\* pk, each (referencing column, referenced pk column) an element of that
\* constraint.
C6_FallbackFromConstraint ==
    (/\ rel_pc # "ready"
     /\ Len(rel.target_pk) = 2
     /\ Cardinality(pk_set \cap raw_remotes) = 1
     /\ Len(covering) = 1
     /\ Len(covering[1]) = 2) =>
        /\ rel_pc = "fallback"
        /\ Len(rel_result) = 2
        /\ \A j \in 1..2 :
              /\ rel_result[j][2] = rel.target_pk[j]
              /\ [parent |-> rel_result[j][1], column |-> rel.target_pk[j]] \in Range(covering[1])

\* C6 witness: the relationship maps one pk column only, the constraint lists
\* its elements in the opposite order of the target pk, and the pair of the
\* other pk column comes from the constraint
C6_Witness ==
    /\ rel_pc = "fallback" /\ Len(rel.target_pk) = 2 /\ Len(rel.pairs) = 1
    /\ rel.pairs[1][2] \in pk_set
    /\ Len(covering) = 1 /\ Len(rel.constraints) = 2
    /\ Len(covering[1]) = 2 /\ covering[1][1].column = rel.target_pk[2]
    /\ Len(rel_result) = 2 /\ rel.pairs[1] \in Range(rel_result)

\* a constraint whose column sets are those of the relationship
equals(c) ==
    /\ {c[j].parent : j \in DOMAIN c} = parent_columns(rel)
    /\ {c[j].column : j \in DOMAIN c} = pk_set

\* C7 (as claimed; SpecRel): in the fallback path a constraint is selected iff
\* its referencing columns are exactly the local columns known from the raw
\* pairs and its referenced columns are exactly the target pk columns.
C7_MatchIsSetEquality ==
    rel_pc = "fallback" =>
        rel_matching = SelectSeq(rel.constraints, equals)

\* C7 (amended; SpecRel): in the fallback path a constraint is selected iff its
\* referencing columns include every local column known from the raw pairs and
\* its referenced columns include every target pk column; a constraint with
\* more referencing or referenced columns than those is selected too.
C7_MatchIsInclusion ==
    rel_pc = "fallback" => rel_matching = covering

\* C7 witness: a selected constraint with a referencing column the relationship
\* does not know and a referenced column outside the target pk
C7_Witness ==
    /\ rel_pc = "fallback"
    /\ \E c \in Range(rel_matching) :
          /\ \E j \in DOMAIN c : c[j].parent \notin parent_columns(rel)
          /\ \E j \in DOMAIN c : c[j].column \notin pk_set
    /\ \E c \in Range(rel.constraints) : c \notin Range(rel_matching)

\* C10 (as claimed; SpecRel): fallback path with exactly one matching
\* constraint: every raw pair of the relationship whose remote column is a
\* target pk column is one of the returned pairs.
C10_FallbackKeepsRawPairs ==
    (rel_pc = "fallback" /\ Len(rel_matching) = 1) =>
        \A pr \in raw_pairs : pr[2] \in pk_set => pr \in Range(rel_result)

-----------------------------------------------------------------------------
\* Claims on the registry and the model descriptor

\* C1 (as claimed; SpecReg): for the model type, __init__ runs at most once,
\* whatever the interleaving of the callers, and every call returns the same
\* instance.
C1_AtMostOneInstance ==
    /\ Cardinality(DOMAIN infos) <= 1
    /\ \A t, u \in Threads : (ret[t] # 0 /\ ret[u] # 0) => ret[t] = ret[u]

\* C2 (as claimed; Spec): in every reachable state of a model_info the value a
\* read of field_names returns is the chain of the current keys of primary_keys,
\* properties, composites and relationships, without the names that start with
\* an underscore.
C2_FieldNamesAreCurrentKeys ==
    \A i \in DOMAIN infos : field_names(infos[i]) = visible(chain_keys(infos[i]))

\* every entry of dict m (name and the object bound to it) is an entry of m2,
\* and what m2 holds besides are names m did not hold
additive(m, m2) ==
    /\ \A e \in Range(m) : e \in Range(m2)
    /\ \A e \in Range(m2) : e \notin Range(m) => e.key \notin Keys(m)
    /\ Cardinality(Keys(m2)) = Len(m2)

\* C3 (Spec): every _configure call is additive on each of the four maps (a
\* name recorded before the call is recorded after it and bound to the same
\* child descriptor object, only names not yet recorded are inserted), and a
\* call made while the mapper is as the previous call saw it leaves the four
\* maps as they were.
C3_ConfigureAdditiveIdempotent ==
    [][\A i \in DOMAIN infos :
         /\ \A m \in 1..4 : additive(maps_of(infos[i])[m], maps_of(infos'[i])[m])
         /\ hist[i].seen = mapper_meta => maps_of(infos'[i]) = maps_of(infos[i])]_vars

\* C3 witness: a model_info on which a notification inserted new entries and on
\* which the last _configure call was made with the mapper unchanged
C3_Witness ==
    \E i \in DOMAIN infos :
        /\ hist[i].grew /\ hist[i].idem
        /\ infos[i].relationships # <<>> /\ infos[i].properties # <<>>

\* C4 (Spec): a property name is a key of at most one of primary_keys,
\* properties, composites and relationships (and once in it).
C4_NameInAtMostOneMap ==
    \A i \in DOMAIN infos :
        /\ \A m, n \in 1..4 :
              m # n => Keys(maps_of(infos[i])[m]) \cap Keys(maps_of(infos[i])[n]) = {}
        /\ \A m \in 1..4 : Cardinality(Keys(maps_of(infos[i])[m])) = Len(maps_of(infos[i])[m])

\* C4 witness: a model_info with a two-column primary key, plain columns, a
\* composite and a relationship, part of them recorded by a later notification
C4_Witness ==
    \E i \in DOMAIN infos :
        /\ Len(infos[i].primary_keys) = 2 /\ infos[i].properties # <<>>
        /\ infos[i].composites # <<>> /\ infos[i].relationships # <<>>
        /\ hist[i].grew

-----------------------------------------------------------------------------
\* Claims on the composite descriptor (SpecComp)

\* C8 (as claimed; SpecComp): a composite with n columns and n attribute names,
\* none starting with an underscore: field_names is the n keys of properties,
\* in the order of properties.
C8_FieldNamesInDeclaredOrder ==
    (/\ comp_ret.reads >= 1 /\ ~comp_error
     /\ Len(composite_attrs(comp_in)) = comp_in.ncols
     /\ \A k \in Keys(comp_properties) : ~startswith_underscore(k)) =>
        /\ Len(comp_ret.val) = comp_in.ncols
        /\ comp_ret.val = KeySeq(comp_properties)

\* C9 (as claimed; SpecComp): a read of field_names of a composite never fails,
\* and a read returns what the read before it returned.
C9_ReadsNeverFailAndAgree ==
    [][/\ ~comp_error'
       /\ (comp_ret.reads >= 1 /\ comp_ret'.reads > comp_ret.reads) => comp_ret'.val = comp_ret.val]_vars

====
